---- MODULE Spec2Model ----
(***************************************************************************)
(* arxiv-nest-go: the ingestion pipeline (fetch -> parse -> upsert), the   *)
(* SQLite store it writes to, the curation operations on that store, and   *)
(* the background scheduler that drives the pipeline.                      *)
(*                                                                         *)
(* Strings are sequences of one-character strings, so that the regular     *)
(* expressions and the string functions of the parser are computed on the  *)
(* characters.  The characters "LF", "TAB" and "VT" stand for line feed,   *)
(* horizontal tab and vertical tab.                                        *)
(*                                                                         *)
(* Time is discrete.  One unit of time is five seconds.                    *)
(***************************************************************************)
EXTENDS Integers, Sequences, FiniteSets, TLC

\* ------------------------------------------------------------------ bounds

\* CURRENT_TIMESTAMP is observed in 0..MaxClock; later instants read MaxClock.
MaxClock == 1

\* The largest configured fetch interval, in units of time.
MaxInterval == 3

\* The largest configured rate-limit delay, in units of time.
MaxDelay == 2

\* The longest text cleanText is called with.
MaxTextLen == 4

\* The most entries in a feed ToPapers is called with.
MaxFeedLen == 2

\* The most links of an entry ToPaper is called with.
MaxLinks == 2

\* The most authors, and the most categories, of such an entry.
MaxNames == 2

\* Ticks that fire before the scheduler receives one are counted up to
\* MaxMissed.
MaxMissed == 2

\* The most requests that call CreateTag at the same time.
MaxCallers == 3

\* The most categories, and the most keywords, buildSearchQuery is called
\* with, and the most identifiers FetchByIDs is called with.
MaxTerms == 2

\* ------------------------------------------------------- program constants

\* time.Sleep(10 * time.Second) before the initial fetch: two units of time.
WarmUp == 2

\* ------------------------------------------------------------ small helpers

Min(a, b) == IF a < b THEN a ELSE b

SetMin(S) == CHOOSE x \in S : \A y \in S : x <= y

Digits == {"0", "1", "2", "3", "4", "5", "6", "7", "8", "9"}

\* \s of Go's regexp (RE2): [\t\n\f\r ].
RegexSpace == {" ", "LF", "TAB"}

\* unicode.IsSpace as used by strings.TrimSpace: also vertical tab.
UnicodeSpace == {" ", "LF", "TAB", "VT"}

AllIn(s, from, to, S) == \A k \in from..to : s[k] \in S

\* The sequences over S of length at most n.
SeqsUpTo(S, n) == UNION {[1..k -> S] : k \in 0..n}

\* ---------------------------------------------------------------- fixtures

SrcA1 ==
    <<"h", "t", "t", "p", ":", "/", "/", "a", "r", "x", "i", "v", ".", "o",
            "r", "g", "/", "a", "b", "s", "/", "2", "3", "0", "1", ".", "1",
            "2", "3", "4", "5", "v", "1">>

SrcA2 ==
    <<"h", "t", "t", "p", ":", "/", "/", "a", "r", "x", "i", "v", ".", "o",
            "r", "g", "/", "a", "b", "s", "/", "2", "3", "0", "1", ".", "1",
            "2", "3", "4", "5", "v", "2">>

SrcB1 ==
    <<"2", "3", "0", "2", ".", "0", "0", "0", "1", "v", "1">>

SrcBad ==
    <<"i", "n", "v", "a", "l", "i", "d">>

IdA ==
    <<"2", "3", "0", "1", ".", "1", "2", "3", "4", "5">>

IdB ==
    <<"2", "3", "0", "2", ".", "0", "0", "0", "1">>

TitleB1 ==
    <<"O", "t", "h", "e", "r">>

SummaryA ==
    <<" ", "A", "n", "LF", " ", " ", "a", "b", "s", "t", "r", "a", "c", "t",
            ".", " ">>

SummaryB ==
    <<"B", ".">>

TimeZ ==
    <<"2", "0", "2", "3", "-", "0", "1", "-", "2", "5", "T", "1", "2", ":",
            "0", "0", ":", "0", "0", "Z">>

TimeOff ==
    <<"2", "0", "2", "3", "-", "0", "2", "-", "0", "1", "T", "0", "8", ":",
            "3", "0", ":", "0", "0", "+", "0", "2", ":", "0", "0">>

TimeBad ==
    <<"i", "n", "v", "a", "l", "i", "d", "-", "d", "a", "t", "e">>

PdfA1 ==
    <<"h", "t", "t", "p", ":", "/", "/", "a", "r", "x", "i", "v", ".", "o",
            "r", "g", "/", "p", "d", "f", "/", "2", "3", "0", "1", ".", "1",
            "2", "3", "4", "5", "v", "1">>

PdfA2 ==
    <<"h", "t", "t", "p", ":", "/", "/", "a", "r", "x", "i", "v", ".", "o",
            "r", "g", "/", "p", "d", "f", "/", "2", "3", "0", "1", ".", "1",
            "2", "3", "4", "5", "v", "2">>

AuthorDoe ==
    <<"J", "o", "h", "n", " ", "D", "o", "e">>

AuthorSmith ==
    <<" ", "J", "a", "n", "e", " ", "S", "m", "i", "t", "h", " ">>

CatAI ==
    <<"c", "s", ".", "A", "I">>

CatLG ==
    <<"c", "s", ".", "L", "G">>

Sep ==
    <<",", " ">>

Pdf ==
    <<"p", "d", "f">>

Alternate ==
    <<"a", "l", "t", "e", "r", "n", "a", "t", "e">>

\* ------------------------------------------------------ Identity Normalizer

\* (v\d+)?$ at position k of s: the end of s, or "v" and digits up to the end.
VersionTailAt(s, k) ==
    \/ k = Len(s) + 1
    \/ /\ k + 1 <= Len(s)
       /\ s[k] = "v"
       /\ AllIn(s, k + 1, Len(s), Digits)

\* The lengths n of \d{4,5} for which (\d{4}\.\d{4,5})(v\d+)?$ matches s at i.
IDMatchLens(s, i) ==
    {n \in {4, 5} :
        /\ i + 4 + n <= Len(s)
        /\ AllIn(s, i, i + 3, Digits)
        /\ s[i + 4] = "."
        /\ AllIn(s, i + 5, i + 4 + n, Digits)
        /\ VersionTailAt(s, i + 5 + n)}

\* The whole match (matches[0]) in place of its first group.
extractArxivIDWholeMatch(idStr) ==
    LET starts == {i \in 1..Len(idStr) : IDMatchLens(idStr, i) # {}}
    IN  IF starts = {} THEN <<>>
        ELSE SubSeq(idStr, SetMin(starts), Len(idStr))

\* arxivIDRegex.FindStringSubmatch(idStr)[1]: the leftmost match, its first
\* group; the empty string when nothing matches.
extractArxivID(idStr) ==
    LET starts == {i \in 1..Len(idStr) : IDMatchLens(idStr, i) # {}}
    IN  IF starts = {}
        THEN <<>>
        ELSE LET i == SetMin(starts)
                 n == CHOOSE m \in IDMatchLens(idStr, i) :
                          \A o \in IDMatchLens(idStr, i) : o <= m
             IN  SubSeq(idStr, i, i + 4 + n)

\* ---------------------------------------------------------- Text Normalizer

\* whitespaceRegex.ReplaceAllString(text, " "): every maximal run of \s
\* becomes one space.
RECURSIVE CollapseSpace(_)
CollapseSpace(text) ==
    IF text = <<>> THEN <<>>
    ELSE IF Head(text) \in RegexSpace
         THEN IF Len(text) > 1 /\ text[2] \in RegexSpace
              THEN CollapseSpace(Tail(text))
              ELSE <<" ">> \o CollapseSpace(Tail(text))
         ELSE <<Head(text)>> \o CollapseSpace(Tail(text))

\* strings.TrimSpace
TrimSpace(s) ==
    LET keep == {k \in 1..Len(s) : s[k] \notin UnicodeSpace}
    IN  IF keep = {} THEN <<>>
        ELSE SubSeq(s, SetMin(keep),
                CHOOSE k \in keep : \A j \in keep : j <= k)

cleanText(text) == TrimSpace(CollapseSpace(text))

\* ------------------------------------------------------------- Feed Parser

\* A timestamp that time.Parse accepts under one of the three layouts of
\* parseTime: YYYY-MM-DDTHH:MM:SS followed by Z or by +HH:MM / -HH:MM.
TimeShapeOK(s) ==
    /\ Len(s) \in {20, 25}
    /\ AllIn(s, 1, 4, Digits) /\ s[5] = "-"
    /\ AllIn(s, 6, 7, Digits) /\ s[8] = "-"
    /\ AllIn(s, 9, 10, Digits) /\ s[11] = "T"
    /\ AllIn(s, 12, 13, Digits) /\ s[14] = ":"
    /\ AllIn(s, 15, 16, Digits) /\ s[17] = ":"
    /\ AllIn(s, 18, 19, Digits)
    /\ IF Len(s) = 20 THEN s[20] = "Z"
       ELSE /\ s[20] \in {"+", "-"}
            /\ AllIn(s, 21, 22, Digits) /\ s[23] = ":"
            /\ AllIn(s, 24, 25, Digits)

\* parseTime: the instant, or an error.
parseTime(timeStr) ==
    IF TimeShapeOK(timeStr)
    THEN [err |-> FALSE, t |-> timeStr]
    ELSE [err |-> TRUE, t |-> <<>>]

\* strings.Join(elems, sep)
RECURSIVE Join(_, _)
Join(elems, sep) ==
    IF elems = <<>> THEN <<>>
    ELSE IF Len(elems) = 1 THEN elems[1]
    ELSE elems[1] \o sep \o Join(Tail(elems), sep)

\* A loop whose second branch is a plain else: every link that is not the
\* PDF is taken for the alternate page.
RECURSIVE ScanLinksElse(_, _)
ScanLinksElse(links, url) ==
    IF links = <<>> THEN url
    ELSE LET link == Head(links)
         IN  ScanLinksElse(Tail(links),
                 IF link.Title = Pdf THEN <<link.Href, url[2]>>
                 ELSE <<url[1], link.Href>>)

\* The loop over e.Links of ToPaper: url is <<pdfURL, arxivURL>>.
RECURSIVE ScanLinks(_, _)
ScanLinks(links, url) ==
    IF links = <<>> THEN url
    ELSE LET link == Head(links)
         IN  ScanLinks(Tail(links),
                 IF link.Title = Pdf THEN <<link.Href, url[2]>>
                 ELSE IF link.Rel = Alternate THEN <<url[1], link.Href>>
                 ELSE url)

\* Entry.ToPaper: [err |-> TRUE] or [err |-> FALSE, paper |-> the Paper].
ToPaper(e) ==
    LET arxivID == extractArxivID(e.ID)
        publishedAt == parseTime(e.Published)
        updatedAt == parseTime(e.Updated)
        authors == [i \in 1..Len(e.Authors) |-> TrimSpace(e.Authors[i])]
        categories == [i \in 1..Len(e.Categories) |-> e.Categories[i]]
        url == ScanLinks(e.Links, <<<<>>, <<>>>>)
    IN  IF arxivID = <<>> \/ publishedAt.err \/ updatedAt.err
        THEN [err |-> TRUE]
        ELSE [err |-> FALSE,
              paper |-> [ID |-> arxivID,
                         Title |-> cleanText(e.Title),
                         Abstract |-> cleanText(e.Summary),
                         Authors |-> Join(authors, Sep),
                         Categories |-> Join(categories, Sep),
                         PublishedAt |-> publishedAt.t,
                         UpdatedAt |-> updatedAt.t,
                         PDFUrl |-> url[1],
                         ArxivUrl |-> url[2]]]

\* A loop that returns at the first entry that does not convert.
RECURSIVE ToPapersStopAtError(_)
ToPapersStopAtError(entries) ==
    IF entries = <<>> THEN <<>>
    ELSE LET r == ToPaper(Head(entries))
         IN  IF r.err THEN <<>>
             ELSE <<r.paper>> \o ToPapersStopAtError(Tail(entries))

\* Feed.ToPapers: the papers of the entries that convert, in feed order.
RECURSIVE ToPapers(_)
ToPapers(entries) ==
    IF entries = <<>> THEN <<>>
    ELSE LET r == ToPaper(Head(entries))
         IN  IF r.err THEN ToPapers(Tail(entries))
             ELSE <<r.paper>> \o ToPapers(Tail(entries))

\* ------------------------------------------------------ the remote's entries

Link(href, rel, title) == [Href |-> href, Rel |-> rel, Title |-> title]

EntryA1 ==
    [ID |-> SrcA1, Title |-> <<" ", " ", "T", "e", "s", "t", " ", " ", " ",
            "P", "a", "p", "e", "r", " ", " ">>, Summary |-> SummaryA,
     Published |-> TimeZ, Updated |-> TimeZ,
     Authors |-> <<AuthorDoe, AuthorSmith>>,
     Links |-> <<Link(SrcA1, Alternate, <<>>), Link(PdfA1, <<>>, Pdf)>>,
     Categories |-> <<CatAI, CatLG>>]

EntryA2 ==
    [ID |-> SrcA2, Title |-> <<"U", "p", "d", "a", "t", "e", "d", " ", "T",
            "i", "t", "l", "e">>, Summary |-> SummaryA,
     Published |-> TimeZ, Updated |-> TimeOff,
     Authors |-> <<AuthorDoe, AuthorSmith>>,
     Links |-> <<Link(SrcA2, Alternate, <<>>), Link(PdfA2, <<>>, Pdf)>>,
     Categories |-> <<CatAI>>]

EntryB1 ==
    [ID |-> SrcB1, Title |-> TitleB1, Summary |-> SummaryB,
     Published |-> TimeOff, Updated |-> TimeOff,
     Authors |-> <<AuthorDoe>>,
     Links |-> <<>>,
     Categories |-> <<CatLG>>]

EntryBad ==
    [ID |-> SrcBad, Title |-> TitleB1, Summary |-> SummaryB,
     Published |-> TimeZ, Updated |-> TimeZ,
     Authors |-> <<>>, Links |-> <<>>, Categories |-> <<>>]

\* The feeds the remote answers with: no entry, two items, and an entry that
\* does not convert before a later version of the first item.
ServedFeeds == {<<>>, <<EntryA1, EntryB1>>, <<EntryBad, EntryA2>>}

\* The entries of the remote that convert, each with its paper.
PaperOfEntry ==
    [e \in {x \in {EntryA1, EntryA2, EntryB1,
            EntryBad} : ~ToPaper(x).err} |-> ToPaper(e).paper]

\* The same, by the source identifier of the entry.
PaperOfSource ==
    [s \in {e.ID : e \in DOMAIN PaperOfEntry} |->
        PaperOfEntry[CHOOSE e \in DOMAIN PaperOfEntry : e.ID = s]]

\* The ids of the papers the pipeline hands to the store.
PaperIDs == {PaperOfEntry[e].ID : e \in DOMAIN PaperOfEntry}

\* ToPapers of each feed the remote answers with, computed once.
PapersOfFeed == [f \in ServedFeeds |-> ToPapers(f)]

\* The source identifiers behind the papers of each such feed.
SourcesOfFeed ==
    [f \in ServedFeeds |->
        LET conv == SelectSeq(f, LAMBDA e : ~ToPaper(e).err)
        IN  [k \in 1..Len(conv) |-> conv[k].ID]]

\* ------------------------------------------- arguments of the parser calls

URLPrefix ==
    <<"h", "t", "t", "p", ":", "/", "/", "a", "r", "x", "i", "v", ".", "o",
            "r", "g", "/", "a", "b", "s", "/">>

Core45 ==
    <<"2", "3", "0", "1", ".", "1", "2", "3", "4", "5">>

\* The source identifiers extractArxivID is called with.
IDStrings ==
    {p \o c \o v : p \in {<<>>, URLPrefix, <<"1">>, <<"x">>,
            URLPrefix \o <<"1">>}, c \in {<<"2", "3", "0", "1", ".", "1", "2",
            "3", "4">>, Core45, <<"2", "3", "0", ".", "1", "2", "3", "4">>,
            <<"2", "3", "0", "1", ".", "1", "2", "3">>, <<"2", "3", "0", "1",
            ".", "1", "2", "3", "4", "5", "6">>, <<"2", "3", "0", "1", "-",
            "1", "2", "3", "4">>}, v \in {<<>>, <<"v", "1">>, <<"v", "1",
            "2">>, <<"v">>, <<"v", "1", "x">>, <<"/">>}}
        \cup {SrcBad, <<>>}

\* The entries ToPaper is called with: every list of links, every list of
\* authors with every list of categories, and identifiers with timestamps.
ParserEntries ==
    {[EntryA1 EXCEPT !.Links = l] : l \in SeqsUpTo({Link(SrcA1, Alternate,
            <<>>), Link(SrcA2, Alternate, <<>>), Link(PdfA1, <<"r", "e", "l",
            "a", "t", "e", "d">>, Pdf), Link(PdfA2, <<"r", "e", "l", "a", "t",
            "e", "d">>, Pdf), Link(PdfA2, Alternate, Pdf), Link(<<"h", "t",
            "t", "p", ":", "/", "/", "d", "x", ".", "d", "o", "i", ".", "o",
            "r", "g", "/", "1", "0", ".", "1", "/", "a">>, <<"r", "e", "l",
            "a", "t", "e", "d">>, <<"d", "o", "i">>)}, MaxLinks)}
        \cup {[EntryA1 EXCEPT !.Authors = a, !.Categories = c] :
                  a \in SeqsUpTo({AuthorDoe, AuthorSmith, <<"D", "o", "e",
                          ",", " ", "J">>}, MaxNames),
                  c \in SeqsUpTo({CatAI, CatLG}, MaxNames)}
        \cup {[EntryB1 EXCEPT !.ID = i, !.Published = p, !.Updated = u] :
                  i \in {SrcA1, SrcB1, SrcBad, <<"1">> \o SrcB1},
                  p \in {TimeZ, TimeOff, TimeBad},
                  u \in {TimeZ, TimeOff, TimeBad}}

TagNames == {<<"m", "l">>}

\* The tag ids a request may name.
TagIDs == 1..Cardinality(TagNames)

CreatedNames == {<<"m", "l">>, <<"n", "l", "p">>}

\* The identifiers add-to-library requests name.
RequestIDs == PaperIDs \cup {<<"0", "0", "0", "0", ".", "0", "0", "0", "0">>}

\* ------------------------------------------------------------------- state

VARIABLES
    db,           \* the SQLite database: papers, library, tags, paper_tags
    clock,        \* CURRENT_TIMESTAMP
    lastOp,       \* the last statement executed on db, with its argument
                  \* (for an upsert, the source identifier of the paper's
                  \* entry), and whether the statement before was the same
    written,      \* for each paper id, the source identifier of the entry
                  \* whose paper the last successful upsert stored
    stored,       \* source identifiers of the entries whose papers were stored
    feeds,        \* the feeds the remote API can answer with
    interval,     \* cfg.ArXiv.FetchInterval
    spc,          \* the scheduler goroutine: off, sleep, cycle, select, done
    warm,         \* time left of the warm-up sleep
    untilTick,    \* time until the ticker fires next
    tickPending,  \* ticker.C (capacity one) holds a tick
    stopClosed,   \* stopChan is closed
    tickerStopped,\* ticker.Stop() was called
    sc,           \* the fetchPapers call of the scheduler
    mc,           \* the HandleRefresh request in progress
    activeSched,  \* number of fetchPapers calls of the scheduler in progress
    nStarted,     \* scheduled cycles started so far: 0, 1, 2, 3 (or more)
    sinceStart,   \* time since the last scheduled cycle started
    late,         \* a tick fired while the scheduler was not waiting for it
    lastOutcome,  \* how the last fetchPapers call of the scheduler that
                  \* returned ended: none, error, stored
    fc,           \* the runFetch call of the fetch command in progress
    client,       \* a Client of the arXiv API and its FetchNew call
    call,         \* a call of a function of the parser or of the Client:
                  \* the function, its argument, whether it returned, and
                  \* its result
    tagCalls,     \* the CreateTag call of each concurrent request
    resp,         \* the response to the last add-to-library request
    lastCuration, \* for each paper id, the last of save and remove executed
                  \* for it
    missed        \* ticks fired since the scheduler last received one

storeVars == <<db, clock, lastOp, written, stored>>

cfgVars == <<feeds, interval>>

schedVars == <<spc, warm, untilTick, tickPending, stopClosed, tickerStopped,
               activeSched, nStarted, sinceStart, late, lastOutcome>>

cycleVars == <<sc, mc>>

cmdVars == <<fc, client, call>>

webVars == <<tagCalls, resp>>

ghostVars == <<lastCuration, missed>>

vars == <<storeVars, cfgVars, cmdVars, schedVars, cycleVars, webVars,
          ghostVars>>

\* ------------------------------------------------------------ Upsert Store

\* The row INSERT creates: created_at defaults to CURRENT_TIMESTAMP.
NewRow(paper, now) ==
    [Title |-> paper.Title, Abstract |-> paper.Abstract,
     Authors |-> paper.Authors, Categories |-> paper.Categories,
     PublishedAt |-> paper.PublishedAt, UpdatedAt |-> paper.UpdatedAt,
     PDFUrl |-> paper.PDFUrl, ArxivUrl |-> paper.ArxivUrl,
     CreatedAt |-> now]

\* A SET list that has only the title and the abstract.
UpdatedRowTextOnly(row, paper) ==
    [row EXCEPT !.Title = paper.Title, !.Abstract = paper.Abstract]

\* ON CONFLICT(id) DO UPDATE SET ...: the eight columns of the SET list.
UpdatedRow(row, paper) ==
    [row EXCEPT !.Title = paper.Title, !.Abstract = paper.Abstract,
                !.Authors = paper.Authors, !.Categories = paper.Categories,
                !.PublishedAt = paper.PublishedAt,
                !.UpdatedAt = paper.UpdatedAt,
                !.PDFUrl = paper.PDFUrl, !.ArxivUrl = paper.ArxivUrl]

\* INSERT OR REPLACE with foreign keys enforced: the old row is deleted,
\* and with it (ON DELETE CASCADE) its library row and its paper_tags rows.
UpsertPaperReplace(d, paper, now) ==
    [d EXCEPT
        !.papers = [id \in DOMAIN d.papers \cup {paper.ID} |->
                       IF id = paper.ID THEN NewRow(paper, now)
                       ELSE d.papers[id]],
        !.library = IF paper.ID \in DOMAIN d.papers
                    THEN [id \in DOMAIN d.library \ {paper.ID} |->
                             d.library[id]]
                    ELSE @,
        !.paper_tags = IF paper.ID \in DOMAIN d.papers
                       THEN {pt \in @ : pt[1] # paper.ID}
                       ELSE @]

\* A SET list that also has created_at = CURRENT_TIMESTAMP.
UpsertPaperTouchCreated(d, paper, now) ==
    IF paper.ID \in DOMAIN d.papers
    THEN [d EXCEPT !.papers[paper.ID] =
             [UpdatedRow(@, paper) EXCEPT !.CreatedAt = now]]
    ELSE [d EXCEPT !.papers = @ @@ (paper.ID :> NewRow(paper, now))]

\* ON CONFLICT(id) DO NOTHING.
UpsertPaperIgnore(d, paper, now) ==
    IF paper.ID \in DOMAIN d.papers
    THEN d
    ELSE [d EXCEPT !.papers = @ @@ (paper.ID :> NewRow(paper, now))]

\* UpsertPaper: one INSERT ... ON CONFLICT(id) DO UPDATE statement.
UpsertPaper(d, paper, now) ==
    IF paper.ID \in DOMAIN d.papers
    THEN [d EXCEPT !.papers[paper.ID] = UpdatedRow(@, paper)]
    ELSE [d EXCEPT !.papers = @ @@ (paper.ID :> NewRow(paper, now))]

\* The Paper-owned columns of a row, as a Paper.
PaperOf(id, row) ==
    [ID |-> id, Title |-> row.Title, Abstract |-> row.Abstract,
     Authors |-> row.Authors, Categories |-> row.Categories,
     PublishedAt |-> row.PublishedAt, UpdatedAt |-> row.UpdatedAt,
     PDFUrl |-> row.PDFUrl, ArxivUrl |-> row.ArxivUrl]

\* ------------------------------------------------------ curation operations

\* INSERT OR REPLACE INTO library (paper_id): the row is new every time.
SaveToLibraryReplace(d, paperID, now) ==
    [d EXCEPT !.library =
        [id \in DOMAIN d.library \cup {paperID} |->
            IF id = paperID THEN [IsRead |-> FALSE, SavedAt |-> now]
            ELSE d.library[id]]]

\* SaveToLibrary: INSERT INTO library (paper_id) ... ON CONFLICT DO NOTHING.
\* The connection is opened without foreign-key enforcement.
SaveToLibrary(d, paperID, now) ==
    IF paperID \in DOMAIN d.library
    THEN d
    ELSE [d EXCEPT !.library =
              @ @@ (paperID :> [IsRead |-> FALSE, SavedAt |-> now])]

\* DELETE FROM papers WHERE id = ?, with the library row and the paper_tags
\* rows of the paper.
RemovePaper(d, paperID) ==
    [d EXCEPT
        !.papers = [id \in DOMAIN d.papers \ {paperID} |-> d.papers[id]],
        !.library = [id \in DOMAIN d.library \ {paperID} |-> d.library[id]],
        !.paper_tags = {pt \in @ : pt[1] # paperID}]

\* RemoveFromLibrary: DELETE FROM library WHERE paper_id = ?
RemoveFromLibrary(d, paperID) ==
    [d EXCEPT !.library =
        [id \in DOMAIN d.library \ {paperID} |-> d.library[id]]]

\* UPDATE library SET is_read = 1 WHERE paper_id = ?
ToggleReadMark(d, paperID) ==
    IF paperID \in DOMAIN d.library
    THEN [d EXCEPT !.library[paperID].IsRead = TRUE]
    ELSE d

\* ToggleRead: UPDATE library SET is_read = NOT is_read WHERE paper_id = ?
ToggleRead(d, paperID) ==
    IF paperID \in DOMAIN d.library
    THEN [d EXCEPT !.library[paperID].IsRead = ~@]
    ELSE d

\* SELECT * FROM tags WHERE name = ?
TagsNamed(d, name) == {t \in d.tags : t.Name = name}

\* The id AUTOINCREMENT gives the next tag.
NextTagID(d) ==
    IF d.tags = {} THEN 1
    ELSE 1 + (CHOOSE m \in {t.ID : t \in d.tags} :
                 \A t \in d.tags : t.ID <= m)

\* CreateTag called with no other statement in between: the existing tag's
\* id, or the id of the tag it inserts.
CreateTag(d, name) ==
    IF TagsNamed(d, name) # {}
    THEN [db |-> d, id |-> (CHOOSE t \in TagsNamed(d, name) : TRUE).ID]
    ELSE [db |-> [d EXCEPT !.tags =
                     @ \cup {[ID |-> NextTagID(d), Name |-> name]}],
          id |-> NextTagID(d)]

\* TagPaper: INSERT INTO paper_tags ... ON CONFLICT DO NOTHING
TagPaper(d, paperID, tagID) ==
    [d EXCEPT !.paper_tags = @ \cup {<<paperID, tagID>>}]

\* UntagPaper: DELETE FROM paper_tags WHERE paper_id = ? AND tag_id = ?
UntagPaper(d, paperID, tagID) ==
    [d EXCEPT !.paper_tags = @ \ {<<paperID, tagID>>}]

EmptyFcn == [x \in {} |-> x]

\* The last of save and remove for each paper id after the statement
\* op(arg).
CurationAfter(last, op, arg) ==
    IF op \in {"save", "remove"}
    THEN [id \in DOMAIN last \cup {arg} |->
             IF id = arg THEN op ELSE last[id]]
    ELSE last

\* The record of a statement op(arg) executed after the statement last.
OpRecord(last, op, arg) ==
    [op |-> op, arg |-> arg, again |-> (last.op = op /\ last.arg = arg)]

\* ------------------------------------------------------- ingestion cycles

\* A cycle (fetchPapers, HandleRefresh, runFetch): its position and its local
\* variables feed, papers, the loop index and count; ok and failed are the
\* indices of the papers whose UpsertPaper call succeeded and failed.
IdleCycle ==
    [pc |-> "idle", feed |-> <<>>, papers |-> <<>>, i |-> 0, count |-> 0,
     ok |-> {}, failed |-> {}]

\* The function is entered: FetchNew is the next call.
EnteredCycle == [IdleCycle EXCEPT !.pc = "fetch"]

\* FetchNew returned feed f and feed.ToPapers() returned.
FetchedCycle(f) ==
    [pc |-> "upsert", feed |-> f, papers |-> PapersOfFeed[f], i |-> 1,
     count |-> 0, ok |-> {}, failed |-> {}]

\* The source identifier of the entry behind the paper the loop is at.
SourceAt(c) == SourcesOfFeed[c.feed][c.i]

\* The effect on the store of the UpsertPaper call of the loop body.
UpsertStep(c) ==
    LET paper == c.papers[c.i]
    IN  /\ db' = UpsertPaper(db, paper, clock)
        /\ lastOp' = OpRecord(lastOp, "upsert", SourceAt(c))
        /\ written' = [id \in DOMAIN written \cup {paper.ID} |->
                          IF id = paper.ID THEN SourceAt(c) ELSE written[id]]
        /\ stored' = stored \cup {SourceAt(c)}
        /\ UNCHANGED clock

\* ------------------------------------------------------------- Fetch Client

\* NewClient(rateLimitDelay).  pc is the position of the FetchNew call in
\* progress (idle: none), left the time left of its time.Sleep, status how
\* its last request ended (none, failed, status, ok) and since the time
\* since then.
NewClient(rateLimitDelay) ==
    [rateLimitDelay |-> rateLimitDelay, pc |-> "idle", left |-> 0,
     status |-> "none", since |-> (MaxDelay + 1)]

\* No call of a parser function.
NoCall == [fn |-> "none", arg |-> <<>>, done |-> FALSE, res |-> <<>>]

\* The loop body when UpsertPaper returned nil: count++.
AfterUpsertOK(c) ==
    [c EXCEPT !.i = @ + 1, !.count = @ + 1, !.ok = @ \cup {c.i}]

\* A loop body that leaves the loop on an error.
AfterUpsertFailBreak(c) ==
    [c EXCEPT !.i = Len(c.papers) + 1, !.failed = @ \cup {c.i}]

\* The loop body when UpsertPaper returned an error: log and continue.
AfterUpsertFail(c) ==
    [c EXCEPT !.i = @ + 1, !.failed = @ \cup {c.i}]

\* ---------------------------------------------------------------- Scheduler

\* go fetchPapers(...): the goroutine goes on to the select at once.
SchedPcAsync == "select"

\* The scheduler goroutine while fetchPapers runs: the call is synchronous.
SchedPcInCall == "cycle"

\* A timer that runs only while the goroutine waits in the select.
TimerRunsWhileIdle == spc = "select" /\ ~tickerStopped

\* The ticker counts while it exists and was not stopped.
TickerRunning == spc # "off" /\ ~tickerStopped

\* A time.Timer: it fires once (0: it never fires again).
TimerOneShot(period) == 0

\* A time.Ticker fires again one period after it fired.
TickerAfterFire(period) == period

\* The goroutine calls fetchPapers.
CallFetchPapers ==
    /\ sc' = EnteredCycle
    /\ spc' = SchedPcInCall
    /\ activeSched' = Min(activeSched + 1, 2)
    /\ nStarted' = Min(nStarted + 1, 3)
    /\ sinceStart' = 0

\* One unit of time passes.  It does not while the scheduler goroutine can
\* take a step: a sleep that is over, a select with a case that is ready.
Tick ==
    /\ ~(spc = "sleep" /\ warm = 0)
    /\ ~(spc = "select" /\ (tickPending \/ stopClosed))
    /\ LET fires == TickerRunning /\ untilTick = 1
       IN  /\ clock' = Min(clock + 1, MaxClock)
           /\ warm' = IF spc = "sleep" THEN warm - 1 ELSE warm
           /\ untilTick' = IF ~TickerRunning \/ untilTick = 0 THEN untilTick
                           ELSE IF fires THEN TickerAfterFire(interval)
                           ELSE untilTick - 1
           /\ tickPending' = (tickPending \/ fires)
           /\ missed' = IF fires THEN Min(missed + 1, MaxMissed) ELSE missed
           /\ late' = (late \/ (fires /\ spc # "select"))
           /\ sinceStart' = IF nStarted = 0 \/ late' THEN 0
                            ELSE Min(sinceStart + 1, MaxInterval + 1)
    /\ client' = [client EXCEPT !.left = IF @ > 0 THEN @ - 1 ELSE 0,
                                !.since = Min(@ + 1, MaxDelay + 1)]
    /\ UNCHANGED <<db, lastOp, written, stored, cfgVars, webVars,
                   lastCuration, spc, stopClosed,
                   tickerStopped, activeSched, nStarted, lastOutcome,
                   cycleVars, fc, call>>

\* time.Sleep(10 * time.Second) is over: the initial fetchPapers call.
SchedWake ==
    /\ spc = "sleep" /\ warm = 0
    /\ CallFetchPapers
    /\ UNCHANGED <<storeVars, cfgVars, webVars, ghostVars, cmdVars, warm,
            untilTick, tickPending,
                   stopClosed, tickerStopped, late, lastOutcome, mc>>

\* A channel that holds every tick sent: one of them is taken.
PendingAfterReceiveQueued == missed > 1

\* <-ticker.C takes the one tick the channel holds.
PendingAfterReceive == FALSE

\* select: case <-ticker.C
SchedTick ==
    /\ spc = "select" /\ tickPending
    /\ tickPending' = PendingAfterReceive
    /\ missed' = 0
    /\ CallFetchPapers
    /\ UNCHANGED <<storeVars, cfgVars, webVars, lastCuration, cmdVars, warm,
            untilTick, stopClosed,
                   tickerStopped, late, lastOutcome, mc>>

\* select: case <-stopChan
SchedStop ==
    /\ spc = "select" /\ stopClosed
    /\ tickerStopped' = TRUE
    /\ spc' = "done"
    /\ UNCHANGED <<storeVars, cfgVars, webVars, ghostVars, cmdVars, warm,
            untilTick, tickPending,
                   stopClosed, activeSched, nStarted, sinceStart, late,
                   lastOutcome, cycleVars>>

\* The stop function startScheduler returned is called: close(stopChan).
Stop ==
    /\ spc # "off" /\ ~stopClosed
    /\ stopClosed' = TRUE
    /\ UNCHANGED <<storeVars, cfgVars, webVars, ghostVars, cmdVars, spc, warm,
            untilTick, tickPending,
                   tickerStopped, activeSched, nStarted, sinceStart, late,
                   lastOutcome, cycleVars>>

\* log.Fatalf in place of log.Printf on an error: the process exits.
SchedPcFatal(outcome) == IF outcome = "error" THEN "done" ELSE "select"

\* The scheduler goroutine after fetchPapers returned: the for loop.
SchedPcAfter(outcome) == "select"

\* fetchPapers returns to the scheduler goroutine; outcome is what it logged.
SchedReturned(outcome) ==
    /\ sc' = IdleCycle
    /\ lastOutcome' = outcome
    /\ spc' = IF spc = "cycle" THEN SchedPcAfter(outcome) ELSE spc
    /\ activeSched' = IF activeSched > 0 THEN activeSched - 1 ELSE 0
    /\ UNCHANGED <<cfgVars, webVars, ghostVars, cmdVars, warm, untilTick,
            tickPending, stopClosed,
                   tickerStopped, nStarted, sinceStart, late, mc>>

\* fetchPapers: client.FetchNew fails (request, status or decoding).
SchedFetchFail ==
    /\ sc.pc = "fetch"
    /\ SchedReturned("error")
    /\ UNCHANGED storeVars

\* fetchPapers: client.FetchNew and feed.ToPapers succeed.
SchedFetchOK ==
    /\ sc.pc = "fetch"
    /\ \E f \in feeds : sc' = FetchedCycle(f)
    /\ UNCHANGED <<storeVars, cfgVars, webVars, ghostVars, cmdVars, schedVars,
            mc>>

\* fetchPapers: one iteration of the loop, UpsertPaper succeeds.
SchedUpsertOK ==
    /\ sc.pc = "upsert" /\ sc.i <= Len(sc.papers)
    /\ UpsertStep(sc)
    /\ sc' = AfterUpsertOK(sc)
    /\ UNCHANGED <<cfgVars, webVars, ghostVars, cmdVars, schedVars, mc>>

\* fetchPapers: one iteration of the loop, UpsertPaper fails.
SchedUpsertFail ==
    /\ sc.pc = "upsert" /\ sc.i <= Len(sc.papers)
    /\ sc' = AfterUpsertFail(sc)
    /\ UNCHANGED <<storeVars, cfgVars, webVars, ghostVars, cmdVars, schedVars,
            mc>>

\* fetchPapers: the loop is over, the count is logged.
SchedCycleDone ==
    /\ sc.pc = "upsert" /\ sc.i > Len(sc.papers)
    /\ SchedReturned("stored")
    /\ UNCHANGED storeVars

\* ------------------------------------------------------------ HandleRefresh

\* A refresh request arrives.
RefreshStart ==
    /\ spc # "off"
    /\ mc.pc = "idle"
    /\ mc' = EnteredCycle
    /\ UNCHANGED <<storeVars, cfgVars, webVars, ghostVars, cmdVars, schedVars,
            sc>>

\* HandleRefresh: h.arxiv.FetchNew fails, status 500.
RefreshFetchFail ==
    /\ mc.pc = "fetch"
    /\ mc' = IdleCycle
    /\ UNCHANGED <<storeVars, cfgVars, webVars, ghostVars, cmdVars, schedVars,
            sc>>

\* HandleRefresh: FetchNew and ToPapers succeed.
RefreshFetchOK ==
    /\ mc.pc = "fetch"
    /\ \E f \in feeds : mc' = FetchedCycle(f)
    /\ UNCHANGED <<storeVars, cfgVars, webVars, ghostVars, cmdVars, schedVars,
            sc>>

\* HandleRefresh: one iteration of the loop, UpsertPaper succeeds.
RefreshUpsertOK ==
    /\ mc.pc = "upsert" /\ mc.i <= Len(mc.papers)
    /\ UpsertStep(mc)
    /\ mc' = AfterUpsertOK(mc)
    /\ UNCHANGED <<cfgVars, webVars, ghostVars, cmdVars, schedVars, sc>>

\* HandleRefresh: one iteration of the loop, UpsertPaper fails.
RefreshUpsertFail ==
    /\ mc.pc = "upsert" /\ mc.i <= Len(mc.papers)
    /\ mc' = AfterUpsertFail(mc)
    /\ UNCHANGED <<storeVars, cfgVars, webVars, ghostVars, cmdVars, schedVars,
            sc>>

\* HandleRefresh: the loop is over, status 200 with the count.
RefreshDone ==
    /\ mc.pc = "upsert" /\ mc.i > Len(mc.papers)
    /\ mc' = IdleCycle
    /\ UNCHANGED <<storeVars, cfgVars, webVars, ghostVars, cmdVars, schedVars,
            sc>>

\* ---------------------------------------------------------------- runFetch

\* The fetch command is started.
FetchCmdStart ==
    /\ fc.pc = "idle"
    /\ fc' = EnteredCycle
    /\ UNCHANGED <<storeVars, cfgVars, webVars, ghostVars, schedVars,
            cycleVars, client, call>>

\* runFetch: client.FetchNew fails, log.Fatalf ends the process.
FetchCmdFetchFail ==
    /\ fc.pc = "fetch"
    /\ fc' = IdleCycle
    /\ UNCHANGED <<storeVars, cfgVars, webVars, ghostVars, schedVars,
            cycleVars, client, call>>

\* runFetch: FetchNew and ToPapers succeed.
FetchCmdFetchOK ==
    /\ fc.pc = "fetch"
    /\ \E f \in feeds : fc' = FetchedCycle(f)
    /\ UNCHANGED <<storeVars, cfgVars, webVars, ghostVars, schedVars,
            cycleVars, client, call>>

\* runFetch: one iteration of the loop, UpsertPaper succeeds.
FetchCmdUpsertOK ==
    /\ fc.pc = "upsert" /\ fc.i <= Len(fc.papers)
    /\ UpsertStep(fc)
    /\ fc' = AfterUpsertOK(fc)
    /\ UNCHANGED <<cfgVars, webVars, ghostVars, schedVars, cycleVars, client,
            call>>

\* runFetch: one iteration of the loop, UpsertPaper fails.
FetchCmdUpsertFail ==
    /\ fc.pc = "upsert" /\ fc.i <= Len(fc.papers)
    /\ fc' = AfterUpsertFail(fc)
    /\ UNCHANGED <<storeVars, cfgVars, webVars, ghostVars, schedVars,
            cycleVars, client, call>>

\* runFetch: the loop is over, the count is logged, the process ends.
FetchCmdDone ==
    /\ fc.pc = "upsert" /\ fc.i > Len(fc.papers)
    /\ fc' = IdleCycle
    /\ UNCHANGED <<storeVars, cfgVars, webVars, ghostVars, schedVars,
            cycleVars, client, call>>

\* ---------------------------------------------------------------- FetchNew

\* FetchNew is called: the query and the request are built, the request is
\* sent.
FetchNewCall ==
    /\ client.pc = "idle"
    /\ client' = [client EXCEPT !.pc = "request"]
    /\ UNCHANGED <<storeVars, cfgVars, webVars, ghostVars, schedVars,
            cycleVars, fc, call>>

\* httpClient.Do returns an error (the timeout included).
FetchNewRequestFail ==
    /\ client.pc = "request"
    /\ client' = [client EXCEPT !.pc = "idle", !.status = "failed",
                                !.since = 0]
    /\ UNCHANGED <<storeVars, cfgVars, webVars, ghostVars, schedVars,
            cycleVars, fc, call>>

\* The response has a status code other than 200.
FetchNewBadStatus ==
    /\ client.pc = "request"
    /\ client' = [client EXCEPT !.pc = "idle", !.status = "status",
                                !.since = 0]
    /\ UNCHANGED <<storeVars, cfgVars, webVars, ghostVars, schedVars,
            cycleVars, fc, call>>

\* The response has status code 200: ParseFeed is next.
FetchNewResponse ==
    /\ client.pc = "request"
    /\ client' = [client EXCEPT !.pc = "parse", !.status = "ok", !.since = 0]
    /\ UNCHANGED <<storeVars, cfgVars, webVars, ghostVars, schedVars,
            cycleVars, fc, call>>

\* ParseFeed returns an error: FetchNew returns it.
FetchNewParseFail ==
    /\ client.pc = "parse"
    /\ client' = [client EXCEPT !.pc = "idle"]
    /\ UNCHANGED <<storeVars, cfgVars, webVars, ghostVars, schedVars,
            cycleVars, fc, call>>

\* ParseFeed returns the feed: time.Sleep(c.rateLimitDelay) begins.
FetchNewParsed ==
    /\ client.pc = "parse"
    /\ client' = [client EXCEPT !.pc = "sleep",
                                !.left = client.rateLimitDelay]
    /\ UNCHANGED <<storeVars, cfgVars, webVars, ghostVars, schedVars,
            cycleVars, fc, call>>

\* time.Sleep is over: FetchNew returns the feed.
FetchNewReturn ==
    /\ client.pc = "sleep" /\ client.left = 0
    /\ client' = [client EXCEPT !.pc = "idle"]
    /\ UNCHANGED <<storeVars, cfgVars, webVars, ghostVars, schedVars,
            cycleVars, fc, call>>

\* ------------------------------------------------------------ parser calls

\* A call of fn with arg that has not returned.
Pending(fn, arg) == [fn |-> fn, arg |-> arg, done |-> FALSE, res |-> <<>>]

\* The call returns res.
Returned(res) ==
    /\ call' = [call EXCEPT !.done = TRUE, !.res = res]
    /\ UNCHANGED <<storeVars, cfgVars, webVars, ghostVars, schedVars,
            cycleVars, fc, client>>

CallExtractArxivID ==
    /\ call.fn = "extractArxivID" /\ ~call.done
    /\ Returned(extractArxivID(call.arg))

CallCleanText ==
    /\ call.fn = "cleanText" /\ ~call.done
    /\ Returned(cleanText(call.arg))

CallToPaper ==
    /\ call.fn = "ToPaper" /\ ~call.done
    /\ Returned(ToPaper(call.arg))

\* ToPapers returns the papers and a nil error.
CallToPapers ==
    /\ call.fn = "ToPapers" /\ ~call.done
    /\ Returned([err |-> FALSE, papers |-> ToPapers(call.arg)])

\* ------------------------------------------------------ requests of Client

\* fmt.Sprintf(prefix + "%s", name) for each name of the list.
Prefixed(prefix, names) == [i \in 1..Len(names) |-> prefix \o names[i]]

\* The part appended for a non-empty list of terms: the only term, or the
\* terms joined with " OR " in parentheses.
OrGroup(terms) ==
    IF Len(terms) = 1 THEN terms[1]
    ELSE <<"(">> \o Join(terms, <<" ", "O", "R", " ">>) \o <<")">>

\* The keyword group appended before the category group.
buildSearchQueryKeywordsFirst(categories, keywords) ==
    LET kw == IF Len(keywords) > 0
              THEN <<OrGroup(Prefixed(<<"a", "l", "l", ":">>,
                      keywords))>> ELSE <<>>
        parts == IF Len(categories) > 0
                 THEN Append(kw, OrGroup(Prefixed(<<"c", "a", "t", ":">>,
                         categories)))
                 ELSE kw
    IN  IF Len(parts) = 0 THEN <<"a", "l", "l", ":", "*">> ELSE Join(parts,
            <<" ", "A", "N", "D", " ">>)

\* buildSearchQuery(categories, keywords)
buildSearchQuery(categories, keywords) ==
    LET cat == IF Len(categories) > 0
               THEN <<OrGroup(Prefixed(<<"c", "a", "t", ":">>,
                       categories))>> ELSE <<>>
        parts == IF Len(keywords) > 0
                 THEN Append(cat, OrGroup(Prefixed(<<"a", "l", "l", ":">>,
                         keywords)))
                 ELSE cat
    IN  IF Len(parts) = 0 THEN <<"a", "l", "l", ":", "*">> ELSE Join(parts,
            <<" ", "A", "N", "D", " ">>)

CallBuildSearchQuery ==
    /\ call.fn = "buildSearchQuery" /\ ~call.done
    /\ Returned(buildSearchQuery(call.arg.categories, call.arg.keywords))

\* -------------------------------------------------------------- FetchByIDs

\* The FetchByIDs call returns feed and err.  The res of the call is its
\* position, the requests it has sent (each by its id_list parameter), and
\* the feed and the error it returns.
ReturnedByIDs(feed, err) ==
    /\ call' = [call EXCEPT !.done = TRUE, !.res.pc = "returned",
                            !.res.feed = feed, !.res.err = err]
    /\ UNCHANGED <<storeVars, cfgVars, webVars, ghostVars, schedVars,
            cycleVars, fc, client>>

\* A function that has no early return.
NeverShortCircuits(ids) == FALSE

\* if len(ids) == 0 { return &Feed{}, nil }
ShortCircuits(ids) == Len(ids) = 0

\* FetchByIDs is called: the empty list returns at once; otherwise the
\* id_list is built and the request is sent.
FetchByIDsCall ==
    /\ call.fn = "FetchByIDs" /\ ~call.done /\ call.res.pc = "entry"
    /\ IF ShortCircuits(call.arg)
       THEN ReturnedByIDs(<<>>, FALSE)
       ELSE /\ call' = [call EXCEPT
                           !.res.pc = "request",
                           !.res.requests =
                               Append(@, [id_list |-> Join(call.arg,
                                       <<",">>)])]
            /\ UNCHANGED <<storeVars, cfgVars, webVars, ghostVars, schedVars,
                    cycleVars, fc,
                           client>>

\* httpClient.Do returns an error (the timeout included).
FetchByIDsRequestFail ==
    /\ call.fn = "FetchByIDs" /\ ~call.done /\ call.res.pc = "request"
    /\ ReturnedByIDs(<<>>, TRUE)

\* The response has a status code other than 200.
FetchByIDsBadStatus ==
    /\ call.fn = "FetchByIDs" /\ ~call.done /\ call.res.pc = "request"
    /\ ReturnedByIDs(<<>>, TRUE)

\* The response has status code 200: ParseFeed is next.
FetchByIDsResponse ==
    /\ call.fn = "FetchByIDs" /\ ~call.done /\ call.res.pc = "request"
    /\ call' = [call EXCEPT !.res.pc = "parse"]
    /\ UNCHANGED <<storeVars, cfgVars, webVars, ghostVars, schedVars,
            cycleVars, fc, client>>

\* ParseFeed returns an error: FetchByIDs returns it.
FetchByIDsParseFail ==
    /\ call.fn = "FetchByIDs" /\ ~call.done /\ call.res.pc = "parse"
    /\ ReturnedByIDs(<<>>, TRUE)

\* ParseFeed returns the feed: time.Sleep(c.rateLimitDelay) begins.
FetchByIDsParsed ==
    /\ call.fn = "FetchByIDs" /\ ~call.done /\ call.res.pc = "parse"
    /\ \E f \in feeds :
           call' = [call EXCEPT !.res.pc = "sleep", !.res.feed = f]
    /\ client' = [client EXCEPT !.left = client.rateLimitDelay]
    /\ UNCHANGED <<storeVars, cfgVars, webVars, ghostVars, schedVars,
            cycleVars, fc>>

\* time.Sleep is over: FetchByIDs returns the feed.
FetchByIDsReturn ==
    /\ call.fn = "FetchByIDs" /\ ~call.done /\ call.res.pc = "sleep"
    /\ client.left = 0
    /\ ReturnedByIDs(call.res.feed, FALSE)

\* ------------------------------------------- store operations, one at a time

\* A curation statement op(arg) that leaves the database d.
StoreOp(d, op, arg) ==
    /\ db' = d
    /\ lastOp' = OpRecord(lastOp, op, arg)
    /\ lastCuration' = CurationAfter(lastCuration, op, arg)
    /\ UNCHANGED <<clock, written, stored, cfgVars, webVars, missed, cmdVars,
                   schedVars, cycleVars>>

\* UpsertPaper with the paper of an entry of the remote.
DoUpsert ==
    \E e \in DOMAIN PaperOfEntry :
        LET paper == PaperOfEntry[e]
        IN  /\ db' = UpsertPaper(db, paper, clock)
            /\ lastOp' = OpRecord(lastOp, "upsert", e.ID)
            /\ written' = [id \in DOMAIN written \cup {paper.ID} |->
                              IF id = paper.ID THEN e.ID ELSE written[id]]
            /\ stored' = stored \cup {e.ID}
            /\ UNCHANGED <<clock, cfgVars, webVars, ghostVars, cmdVars,
                    schedVars, cycleVars>>

DoSave ==
    \E id \in PaperIDs :
        /\ StoreOp(SaveToLibrary(db, id, clock), "save", id)

DoRemove ==
    \E id \in PaperIDs :
        /\ StoreOp(RemoveFromLibrary(db, id), "remove", id)

DoToggleRead ==
    \E id \in PaperIDs :
        /\ StoreOp(ToggleRead(db, id), "toggle", id)

DoCreateTag ==
    \E name \in TagNames :
        /\ StoreOp(CreateTag(db, name).db, "createTag", name)

DoTagPaper ==
    \E id \in PaperIDs, tagID \in TagIDs :
        /\ StoreOp(TagPaper(db, id, tagID), "tag", <<id, tagID>>)

DoUntagPaper ==
    \E id \in PaperIDs, tagID \in TagIDs :
        /\ StoreOp(UntagPaper(db, id, tagID), "untag", <<id, tagID>>)

\* ------------------------------------------- CreateTag, concurrent callers

\* Caller c calls CreateTag(name): the SELECT finds the tag and the call
\* returns its id, or finds no row and the call goes on to the INSERT.
CreateTagSelect(c) ==
    \E name \in CreatedNames :
        /\ tagCalls[c].pc \in {"idle", "done"}
        /\ tagCalls' = [tagCalls EXCEPT ![c] =
               IF TagsNamed(db, name) # {}
               THEN [pc |-> "done", name |-> name,
                     id |-> (CHOOSE t \in TagsNamed(db, name) : TRUE).ID,
                     err |-> FALSE]
               ELSE [pc |-> "insert", name |-> name, id |-> 0,
                     err |-> FALSE]]
        /\ UNCHANGED <<storeVars, cfgVars, resp, ghostVars, cmdVars,
                       schedVars, cycleVars>>

\* The INSERT of caller c: no tag has the name, the row is made and
\* LastInsertId is returned.
CreateTagInsert(c) ==
    /\ tagCalls[c].pc = "insert"
    /\ TagsNamed(db, tagCalls[c].name) = {}
    /\ db' = [db EXCEPT !.tags =
                 @ \cup {[ID |-> NextTagID(db), Name |-> tagCalls[c].name]}]
    /\ lastOp' = OpRecord(lastOp, "createTag", tagCalls[c].name)
    /\ tagCalls' = [tagCalls EXCEPT ![c].pc = "done",
                                    ![c].id = NextTagID(db)]
    /\ UNCHANGED <<clock, written, stored, cfgVars, resp, ghostVars, cmdVars,
                   schedVars, cycleVars>>

\* The INSERT of caller c: a tag has the name by now (name is UNIQUE), the
\* call returns 0 and the error "failed to create tag".
CreateTagInsertFail(c) ==
    /\ tagCalls[c].pc = "insert"
    /\ TagsNamed(db, tagCalls[c].name) # {}
    /\ tagCalls' = [tagCalls EXCEPT ![c].pc = "done", ![c].err = TRUE]
    /\ UNCHANGED <<storeVars, cfgVars, resp, ghostVars, cmdVars, schedVars,
                   cycleVars>>

\* ------------------------------------------------------ HandleAddToLibrary

\* The HX-Trigger header of the response to a request that was served.
LibraryTrigger ==
    <<"{", "\"", "l", "i", "b", "r", "a", "r", "y", "U", "p", "d", "a",
      "t", "e", "d", "\"", ":", " ", "t", "r", "u", "e", ",", " ", "\"",
      "s", "h", "o", "w", "T", "o", "a", "s", "t", "\"", ":", " ", "{",
      "\"", "m", "e", "s", "s", "a", "g", "e", "\"", ":", " ", "\"", "S",
      "a", "v", "e", "d", " ", "t", "o", " ", "l", "i", "b", "r", "a", "r",
      "y", "\"", ",", " ", "\"", "t", "y", "p", "e", "\"", ":", " ", "\"",
      "s", "u", "c", "c", "e", "s", "s", "\"", "}", "}">>

\* POST /library/add/{id}: SaveToLibrary returns nil, the response has the
\* HX-Trigger header and status 200.
HandleAddToLibrary ==
    \E id \in RequestIDs :
        /\ db' = SaveToLibrary(db, id, clock)
        /\ lastOp' = OpRecord(lastOp, "save", id)
        /\ lastCuration' = CurationAfter(lastCuration, "save", id)
        /\ resp' = [id |-> id, code |-> 200, HXTrigger |-> LibraryTrigger]
        /\ UNCHANGED <<clock, written, stored, cfgVars, tagCalls, missed,
                       cmdVars, schedVars, cycleVars>>

\* POST /library/add/{id}: db.Exec returns an error, the response is
\* http.Error with status 500.
HandleAddToLibraryFail ==
    \E id \in RequestIDs :
        /\ resp' = [id |-> id, code |-> 500, HXTrigger |-> <<>>]
        /\ UNCHANGED <<storeVars, cfgVars, tagCalls, ghostVars, cmdVars,
                       schedVars, cycleVars>>

\* ---------------------------------------------------------- specifications

InitStoreVars ==
    /\ db = [papers |-> EmptyFcn, library |-> EmptyFcn, tags |-> {},
            paper_tags |-> {}]
    /\ clock = 0
    /\ lastOp = [op |-> "none", arg |-> <<>>, again |-> FALSE]
    /\ written = EmptyFcn
    /\ stored = {}
    /\ lastCuration = EmptyFcn
    /\ tagCalls = [c \in 1..MaxCallers |-> [pc |-> "idle", name |-> <<>>,
            id |-> 0, err |-> FALSE]]
    /\ resp = [id |-> <<>>, code |-> 0, HXTrigger |-> <<>>]

InitCycles == sc = IdleCycle /\ mc = IdleCycle

\* No fetch command runs, no FetchNew call and no parser call is observed.
InitCmd ==
    /\ fc = IdleCycle
    /\ client = NewClient(0)
    /\ call = NoCall

\* startScheduler has returned: the ticker runs, the goroutine sleeps.
InitScheduler ==
    /\ spc = "sleep"
    /\ warm = WarmUp
    /\ untilTick = interval
    /\ tickPending = FALSE
    /\ stopClosed = FALSE
    /\ tickerStopped = FALSE
    /\ activeSched = 0
    /\ nStarted = 0
    /\ sinceStart = 0
    /\ late = FALSE
    /\ missed = 0
    /\ lastOutcome = "none"

\* The server: the scheduler and refresh requests ingest from the remote.
Init ==
    /\ InitStoreVars
    /\ feeds = ServedFeeds
    /\ interval = 1
    /\ InitScheduler
    /\ InitCycles
    /\ InitCmd

SchedulerStep ==
    \/ SchedWake
    \/ SchedTick
    \/ SchedStop
    \/ SchedFetchFail
    \/ SchedFetchOK
    \/ SchedUpsertOK
    \/ SchedUpsertFail
    \/ SchedCycleDone

RefreshStep ==
    \/ RefreshStart
    \/ RefreshFetchFail
    \/ RefreshFetchOK
    \/ RefreshUpsertOK
    \/ RefreshUpsertFail
    \/ RefreshDone

Next ==
    \/ Tick
    \/ Stop
    \/ SchedulerStep
    \/ RefreshStep

Spec == Init /\ [][Next]_vars

FetchCmdStep ==
    \/ FetchCmdStart
    \/ FetchCmdFetchFail
    \/ FetchCmdFetchOK
    \/ FetchCmdUpsertOK
    \/ FetchCmdUpsertFail
    \/ FetchCmdDone

\* The three ingestion cycles on one database: the scheduler and refresh
\* requests of the server, and the fetch command run beside it.
NextIngest ==
    \/ Tick
    \/ Stop
    \/ SchedulerStep
    \/ RefreshStep
    \/ FetchCmdStep

\* The remote answers with a feed of two items.
InitIngest ==
    /\ InitStoreVars
    /\ feeds = {<<EntryA1, EntryB1>>}
    /\ interval = 1
    /\ InitScheduler
    /\ InitCycles
    /\ InitCmd

SpecIngest == InitIngest /\ [][NextIngest]_vars

\* The scheduler on its own: no refresh request, every configured interval.
InitSched ==
    /\ InitStoreVars
    /\ feeds = ServedFeeds
    /\ interval \in 1..MaxInterval
    /\ InitScheduler
    /\ InitCycles
    /\ InitCmd

NextSched ==
    \/ Tick
    \/ Stop
    \/ SchedulerStep

SpecSched == InitSched /\ [][NextSched]_vars

\* The scheduler that may be stopped.  The Go runtime schedules the goroutine
\* whenever it can run, time passes, and every call of a cycle returns.
SpecSchedFair ==
    /\ SpecSched
    /\ WF_vars(Tick)
    /\ WF_vars(SchedWake)
    /\ WF_vars(SchedTick)
    /\ WF_vars(SchedStop)
    /\ WF_vars(SchedFetchFail \/ SchedFetchOK)
    /\ WF_vars(SchedUpsertOK \/ SchedUpsertFail)
    /\ WF_vars(SchedCycleDone)

\* The scheduler that is never stopped.  The Go runtime schedules the
\* goroutine whenever it can run, time passes, and every call of a cycle
\* returns.
NextLive ==
    \/ Tick
    \/ SchedWake
    \/ SchedTick
    \/ SchedFetchFail
    \/ SchedFetchOK
    \/ SchedUpsertOK
    \/ SchedUpsertFail
    \/ SchedCycleDone

SpecLive ==
    /\ InitSched
    /\ [][NextLive]_vars
    /\ WF_vars(Tick)
    /\ WF_vars(SchedWake)
    /\ WF_vars(SchedTick)
    /\ WF_vars(SchedFetchFail \/ SchedFetchOK)
    /\ WF_vars(SchedUpsertOK \/ SchedUpsertFail)
    /\ WF_vars(SchedCycleDone)

\* The store used on its own, one call after the other, no scheduler.
InitStore ==
    /\ InitStoreVars
    /\ feeds = {}
    /\ interval = 1
    /\ spc = "off"
    /\ warm = 0
    /\ untilTick = 0
    /\ tickPending = FALSE
    /\ stopClosed = FALSE
    /\ tickerStopped = FALSE
    /\ activeSched = 0
    /\ nStarted = 0
    /\ sinceStart = 0
    /\ late = FALSE
    /\ missed = 0
    /\ lastOutcome = "none"
    /\ InitCycles
    /\ InitCmd

NextStore ==
    \/ Tick
    \/ DoUpsert
    \/ DoSave
    \/ DoRemove
    \/ DoToggleRead
    \/ DoCreateTag
    \/ DoTagPaper
    \/ DoUntagPaper

SpecStore == InitStore /\ [][NextStore]_vars

\* The library: papers are stored, saved, removed and marked, through the
\* store and through add-to-library requests.
NextLibrary ==
    \/ Tick
    \/ DoUpsert
    \/ DoSave
    \/ DoRemove
    \/ DoToggleRead
    \/ HandleAddToLibrary
    \/ HandleAddToLibraryFail

SpecLibrary == InitStore /\ [][NextLibrary]_vars

\* Requests that call CreateTag, each in its goroutine.
NextTags ==
    \/ \E c \in 1..MaxCallers : CreateTagSelect(c)
    \/ \E c \in 1..MaxCallers : CreateTagInsert(c)
    \/ \E c \in 1..MaxCallers : CreateTagInsertFail(c)

SpecTags == InitStore /\ [][NextTags]_vars

\* The server in its warm-up delay: refresh requests ingest from the remote
\* while curation requests use the store.
NextCurate ==
    \/ RefreshStep
    \/ DoUpsert
    \/ DoSave
    \/ DoRemove
    \/ DoToggleRead
    \/ DoCreateTag
    \/ DoTagPaper
    \/ DoUntagPaper

SpecCurate == InitIngest /\ [][NextCurate]_vars

\* No server runs and nothing is fetched.
InitOff ==
    /\ InitStoreVars
    /\ feeds = {}
    /\ interval = 1
    /\ spc = "off"
    /\ warm = 0
    /\ untilTick = 0
    /\ tickPending = FALSE
    /\ stopClosed = FALSE
    /\ tickerStopped = FALSE
    /\ activeSched = 0
    /\ nStarted = 0
    /\ sinceStart = 0
    /\ late = FALSE
    /\ missed = 0
    /\ lastOutcome = "none"
    /\ InitCycles
    /\ fc = IdleCycle

\* A Client on its own: one caller calls FetchNew again and again.
InitClient ==
    /\ InitOff
    /\ call = NoCall
    /\ \E d \in 0..MaxDelay : client = NewClient(d)

NextClient ==
    \/ Tick
    \/ FetchNewCall
    \/ FetchNewRequestFail
    \/ FetchNewBadStatus
    \/ FetchNewResponse
    \/ FetchNewParseFail
    \/ FetchNewParsed
    \/ FetchNewReturn

SpecClient == InitClient /\ [][NextClient]_vars

\* The functions of the parser, each called once with an argument.
InitParser ==
    /\ InitOff
    /\ client = NewClient(0)
    /\ \/ \E s \in IDStrings : call = Pending("extractArxivID", s)
       \/ \E s \in SeqsUpTo({"a", " ", "LF", "VT"}, MaxTextLen) :
              call = Pending("cleanText", s)
       \/ \E e \in ParserEntries : call = Pending("ToPaper", e)
       \/ \E f \in SeqsUpTo({EntryA1, EntryB1, EntryBad,
                             [EntryB1 EXCEPT !.Published = TimeBad],
                             [EntryA2 EXCEPT !.Updated = TimeBad]},
                            MaxFeedLen) :
              call = Pending("ToPapers", f)

NextParser ==
    \/ CallExtractArxivID
    \/ CallCleanText
    \/ CallToPaper
    \/ CallToPapers

SpecParser == InitParser /\ [][NextParser]_vars

\* A Client whose buildSearchQuery or FetchByIDs is called once.
InitQuery ==
    /\ InitStoreVars
    /\ feeds = ServedFeeds
    /\ interval = 1
    /\ spc = "off"
    /\ warm = 0
    /\ untilTick = 0
    /\ tickPending = FALSE
    /\ stopClosed = FALSE
    /\ tickerStopped = FALSE
    /\ activeSched = 0
    /\ nStarted = 0
    /\ sinceStart = 0
    /\ late = FALSE
    /\ missed = 0
    /\ lastOutcome = "none"
    /\ InitCycles
    /\ fc = IdleCycle
    /\ \E d \in 0..MaxDelay : client = NewClient(d)
    /\ \/ \E c \in SeqsUpTo({CatAI, CatLG}, MaxTerms), k \in SeqsUpTo({<<"g",
            "r", "a", "p", "h">>, <<"*">>}, MaxTerms) :
              call = Pending("buildSearchQuery",
                             [categories |-> c, keywords |-> k])
       \/ \E ids \in SeqsUpTo({IdA, IdB}, MaxTerms) :
              call = [fn |-> "FetchByIDs", arg |-> ids, done |-> FALSE,
                      res |-> [pc |-> "entry", requests |-> <<>>,
                               feed |-> <<>>, err |-> FALSE]]

NextQuery ==
    \/ Tick
    \/ CallBuildSearchQuery
    \/ FetchByIDsCall
    \/ FetchByIDsRequestFail
    \/ FetchByIDsBadStatus
    \/ FetchByIDsResponse
    \/ FetchByIDsParseFail
    \/ FetchByIDsParsed
    \/ FetchByIDsReturn

SpecQuery == InitQuery /\ [][NextQuery]_vars

\* ------------------------------------------------------------------ claims

\* The canonical identifier each source identifier of the remote stands for.
ItemOf == (SrcA1 :> IdA) @@ (SrcA2 :> IdA) @@ (SrcB1 :> IdB)

PaperA2 == ToPaper(EntryA2).paper

\* A scheduled cycle starts in this step.
SchedCycleStarts == sc.pc = "idle" /\ sc'.pc = "fetch"

\* C1: a step that executes UpsertPaper, after any sequence of save, remove,
\* toggle-read, tag and untag statements, leaves the library rows
\* (membership, isRead, savedAt) and the paper-tag associations of every
\* paper as they were.
C1_UpsertKeepsCuration ==
    [][lastOp'.op = "upsert" =>
           /\ db'.library = db.library
           /\ db'.paper_tags = db.paper_tags]_vars

\* An upsert of a paper that was stored before, is in the library, is marked
\* read and has a tag.
C1_Witness ==
    /\ lastOp.op = "upsert"
    /\ lastOp.again
    /\ ItemOf[lastOp.arg] \in DOMAIN db.library
    /\ db.library[ItemOf[lastOp.arg]].IsRead
    /\ <<ItemOf[lastOp.arg], 1>> \in db.paper_tags

\* C2: after a successful upsert(p) the store holds the row with key p.id and
\* every Paper-owned field of that row equals the value in p, whether or not
\* a row with that key existed before.
C2_UpsertStoresPaper ==
    lastOp.op = "upsert" =>
        LET p == PaperOfSource[lastOp.arg]
        IN  /\ p.ID \in DOMAIN db.papers
            /\ PaperOf(p.ID, db.papers[p.ID]) = p

\* The second version of a paper was upserted over the row of the first.
C2_Witness ==
    /\ lastOp.op = "upsert"
    /\ lastOp.arg = SrcA2
    /\ SrcA1 \in stored
    /\ IdA \in DOMAIN db.papers
    /\ db.papers[IdA].Title = PaperA2.Title

\* C3: createdAt is assigned when the row is inserted (the current time) and
\* no later step changes it or deletes the row.
C3_CreatedAtSetOnce ==
    [][/\ \A id \in DOMAIN db.papers :
              /\ id \in DOMAIN db'.papers
              /\ db'.papers[id].CreatedAt = db.papers[id].CreatedAt
       /\ \A id \in DOMAIN db'.papers \ DOMAIN db.papers :
              db'.papers[id].CreatedAt = clock]_vars

\* A row inserted at time 0 with the first version of a paper, upserted
\* later with the second version.
C3_Witness ==
    /\ lastOp.op = "upsert"
    /\ lastOp.arg = SrcA2
    /\ stored = {SrcA1, SrcA2}
    /\ clock > 0
    /\ db.papers[IdA].CreatedAt = 0
    /\ db.papers[IdA].UpdatedAt = PaperA2.UpdatedAt

\* C4: upsert(p) directly after upsert(p), at the same or a later time,
\* leaves every table of the store as the first upsert(p) left it.
C4_UpsertIdempotent ==
    [][(lastOp'.op = "upsert" /\ lastOp'.again) => db' = db]_vars

\* The same paper was upserted twice in a row, the second time later than
\* its row was created.
C4_Witness ==
    /\ lastOp.op = "upsert"
    /\ lastOp.again
    /\ db.papers[ItemOf[lastOp.arg]].CreatedAt < clock
    /\ clock = MaxClock

\* C5: after any ingestion cycles, scheduled or manual, the papers table has
\* exactly one row for each canonical id among the entries that were stored;
\* entries whose source identifiers differ only in the version suffix share
\* one row.
C5_OneRowPerCanonicalID ==
    DOMAIN db.papers = {ItemOf[s] : s \in stored}

\* Both versions of one item and another item were stored: two rows.
C5_Witness ==
    /\ stored = {SrcA1, SrcA2, SrcB1}
    /\ Cardinality(DOMAIN db.papers) = 2

\* C6: while a refresh request and a scheduled cycle upsert papers with the
\* same id, every row read is, in all its fields, the paper of the last upsert
\* of that id that completed, never a mixture of two papers.
C6_LastWriterWins ==
    \A id \in DOMAIN db.papers :
        /\ id \in DOMAIN written
        /\ PaperOf(id, db.papers[id]) = PaperOfSource[written[id]]

\* Both cycles are in their loops and each has stored a version of item A.
C6_Witness ==
    /\ sc.pc = "upsert" /\ mc.pc = "upsert"
    /\ sc.count >= 1 /\ mc.count >= 1
    /\ sc.papers[1].ID = IdA /\ mc.papers[1].ID = IdA
    /\ sc.papers[1] # mc.papers[1]

\* C7: once the stop function has been called no scheduled cycle starts, the
\* initial cycle after the warm-up delay and a cycle for a pending tick
\* included.
C7_NoCycleStartsAfterStop ==
    [][stopClosed => ~SchedCycleStarts]_vars

\* C8: the scheduler that is never stopped, with cycles that terminate, starts
\* a cycle again and again and is idle again and again.
C8_CyclesForever ==
    /\ []<>(spc = "cycle")
    /\ []<>(spc = "select")

\* The scheduler is idle after its third cycle.
C8_Witness ==
    /\ nStarted = 3
    /\ spc = "select"
    /\ ~stopClosed

\* C9: at most one fetchPapers call of the scheduler is in progress, also
\* when a cycle runs past the next tick.
C9_OneScheduledCycle == activeSched <= 1

\* A scheduled cycle that was started by a tick is still running when the
\* next tick has fired, and a refresh request is in progress beside it.
C9_Witness ==
    /\ activeSched = 1
    /\ spc = "cycle"
    /\ nStarted >= 2
    /\ tickPending
    /\ mc.pc = "upsert"

\* C10 as stated: when no tick fires while the scheduler is busy, every
\* scheduled cycle after the first, the second included, starts exactly one
\* interval after the start of the cycle before it.
C10_IntervalFromCycleStart ==
    [][(SchedCycleStarts /\ nStarted >= 1 /\ ~late) =>
           sinceStart = interval]_vars

\* C10 amended: when no tick fires while the scheduler is busy, the second
\* cycle starts one interval after the scheduler was created, that is the
\* interval less the warm-up delay after the start of the first cycle, and
\* every later cycle starts exactly one interval after the start of the
\* cycle before it.
C10_IntervalFromCreation ==
    [][(SchedCycleStarts /\ ~late) =>
           /\ nStarted = 1 => sinceStart = interval - WarmUp
           /\ nStarted >= 2 => sinceStart = interval]_vars

\* The third cycle has started and no tick was ever missed.
C10_Witness ==
    /\ nStarted = 3
    /\ ~late
    /\ spc = "cycle"

\* A scheduled cycle ends in this step because FetchNew returned an error.
SchedFetchFails == sc.pc = "fetch" /\ sc'.pc = "idle"

\* C11: a scheduled cycle whose fetch or feed decoding fails stores no paper
\* and leaves the store as it was, and the scheduler goroutine goes on to
\* wait for the ticker; unless the scheduler is stopped, the next tick starts
\* a new cycle with no time passing in between, and a new cycle does start.
C11_BatchFailureContained ==
    /\ [][SchedFetchFails =>
              /\ db' = db /\ stored' = stored
              /\ sc.count = 0 /\ sc.ok = {}
              /\ lastOutcome' = "error"
              /\ spc' = "select" /\ ~tickerStopped']_vars
    /\ [][(lastOutcome = "error" /\ spc = "select" /\ tickPending
              /\ ~stopClosed) => (spc' = "cycle" \/ stopClosed')]_vars
    /\ ((lastOutcome = "error" /\ spc = "select")
            ~> (spc = "cycle" \/ stopClosed))

\* The cycle before failed, the scheduler was not stopped, and the next
\* cycle has started on a store that a first cycle had filled.
C11_Witness ==
    /\ lastOutcome = "error"
    /\ spc = "cycle"
    /\ nStarted = 3
    /\ ~stopClosed
    /\ DOMAIN db.papers = {IdA, IdB}

\* The count of a cycle is exact: it is the number of papers of the batch
\* whose upsert succeeded, every paper of the batch was attempted, and the
\* papers that succeeded have their rows.
CountIsExact(c) ==
    /\ c.count = Cardinality(c.ok)
    /\ c.ok \cup c.failed = 1..Len(c.papers)
    /\ c.ok \cap c.failed = {}
    /\ \A k \in c.ok : c.papers[k].ID \in DOMAIN db.papers

\* C12: when fetchPapers, HandleRefresh or runFetch leaves its loop and
\* reports its count, every paper of the batch has been attempted, the ones
\* after a failed upsert included, and the count is exactly the number of
\* papers whose upsert succeeded.
C12_CountOfStoredPapers ==
    [][/\ (sc.pc = "upsert" /\ sc'.pc = "idle") => CountIsExact(sc)
       /\ (mc.pc = "upsert" /\ mc'.pc = "idle") => CountIsExact(mc)
       /\ (fc.pc = "upsert" /\ fc'.pc = "idle") => CountIsExact(fc)]_vars

\* Each of the three cycles is at the end of its loop over a batch of two
\* papers: the upsert of the first failed, the upsert of the second
\* succeeded, the count is one.
C12_Witness ==
    \A c \in {sc, mc, fc} :
        /\ c.pc = "upsert" /\ c.i = 3
        /\ c.failed = {1} /\ c.ok = {2}
        /\ c.count = 1

\* C16: a FetchNew call that received a success response returns only when
\* the rate-limit delay has passed since the response, also when the body
\* does not decode, and the caller's next request starts no earlier.
C16_DelayAfterEverySuccess ==
    [][/\ (client.pc \in {"parse", "sleep"} /\ client'.pc = "idle")
              => client.since >= client.rateLimitDelay
       /\ (client.pc = "idle" /\ client'.pc = "request"
              /\ client.status = "ok")
              => client.since >= client.rateLimitDelay]_vars

\* The entry's identifier normalizes and both its timestamps parse.
Convertible(e) ==
    /\ extractArxivID(e.ID) # <<>>
    /\ ~parseTime(e.Published).err
    /\ ~parseTime(e.Updated).err

\* C13: ToPapers returns no error and returns, in feed order, exactly the
\* papers of the entries whose identifier normalizes and whose published and
\* updated timestamps parse; an entry that does not convert is skipped and
\* the entries around it convert as they do on their own.
C13_ToPapersSkips ==
    (call.fn = "ToPapers" /\ call.done) =>
        LET conv == SelectSeq(call.arg, Convertible)
        IN  /\ ~call.res.err
            /\ Len(call.res.papers) = Len(conv)
            /\ \A k \in 1..Len(conv) :
                   call.res.papers[k] = ToPaper(conv[k]).paper

\* A feed whose first entry has a timestamp that does not parse and whose
\* second entry is valid: the paper of the second entry is returned.
C13_Witness ==
    /\ call.fn = "ToPapers" /\ call.done
    /\ call.arg = <<[EntryA2 EXCEPT !.Updated = TimeBad], EntryB1>>
    /\ Len(call.res.papers) = 1
    /\ call.res.papers[1].ID = IdB

\* <4 digits>.<4-5 digits>
IsCanonicalID(c) ==
    /\ Len(c) \in {9, 10}
    /\ AllIn(c, 1, 4, Digits)
    /\ c[5] = "."
    /\ AllIn(c, 6, Len(c), Digits)

\* Nothing, or v<digits>.
IsVersionSuffix(v) ==
    \/ v = <<>>
    \/ /\ Len(v) >= 2
       /\ v[1] = "v"
       /\ AllIn(v, 2, Len(v), Digits)

\* C14: when the source identifier ends in <4 digits>.<4-5 digits> and an
\* optional v<digits>, whatever stands before, extractArxivID returns the
\* <4 digits>.<4-5 digits> part; the version suffix has no influence.
C14_VersionStripped ==
    (call.fn = "extractArxivID" /\ call.done) =>
        \A i \in 1..Len(call.arg), j \in 1..Len(call.arg) :
            (/\ IsCanonicalID(SubSeq(call.arg, i, j))
             /\ IsVersionSuffix(SubSeq(call.arg, j + 1, Len(call.arg))))
                => call.res = SubSeq(call.arg, i, j)

\* A URL that ends in an identifier with a two-digit version.
C14_Witness ==
    /\ call.fn = "extractArxivID" /\ call.done
    /\ call.arg = URLPrefix \o Core45 \o <<"v", "1", "2">>
    /\ call.res = Core45

\* The part of s after its last "/": all of s when it has none.
LastSegment(s) ==
    LET slashes == {k \in 1..Len(s) : s[k] = "/"}
    IN  IF slashes = {} THEN s
        ELSE SubSeq(s, (CHOOSE k \in slashes : \A m \in slashes : m <= k) + 1,
                    Len(s))

\* x is exactly <4 digits>.<4-5 digits> with an optional v<digits>.
IsExactID(x) ==
    \E j \in 0..Len(x) :
        /\ IsCanonicalID(SubSeq(x, 1, j))
        /\ IsVersionSuffix(SubSeq(x, j + 1, Len(x)))

\* C15: when the identifier (the bare string, or the last path segment of a
\* URL) is not exactly <4 digits>.<4-5 digits> with an optional v<digits>,
\* extractArxivID returns the empty string and ToPaper returns an error.
C15_NoGuess ==
    /\ (call.fn = "extractArxivID" /\ call.done
           /\ ~IsExactID(LastSegment(call.arg))) => call.res = <<>>
    /\ (call.fn = "ToPaper" /\ call.done
           /\ ~IsExactID(LastSegment(call.arg.ID))) => call.res.err

\* The positions of the links with the PDF marker, and with the marker of
\* the alternate page.
PdfLinks(links) == {k \in 1..Len(links) : links[k].Title = Pdf}

AlternateLinks(links) == {k \in 1..Len(links) : links[k].Rel = Alternate}

\* C17: pdfUrl is the href of the first link marked as the PDF and arxivUrl
\* the href of the first link marked as the alternate page; later links of
\* the same role do not replace them.
C17_FirstLinkWins ==
    (call.fn = "ToPaper" /\ call.done /\ ~call.res.err) =>
        LET links == call.arg.Links
        IN  /\ PdfLinks(links) # {} =>
                   call.res.paper.PDFUrl = links[SetMin(PdfLinks(links))].Href
            /\ AlternateLinks(links) # {} =>
                   call.res.paper.ArxivUrl =
                       links[SetMin(AlternateLinks(links))].Href

\* C18: an entry with a valid identifier and valid timestamps converts with
\* no error whatever its links; with no PDF link pdfUrl is the empty string,
\* with no alternate link arxivUrl is the empty string.
C18_MissingLinksAreEmpty ==
    (call.fn = "ToPaper" /\ call.done /\ Convertible(call.arg)) =>
        /\ ~call.res.err
        /\ PdfLinks(call.arg.Links) = {} => call.res.paper.PDFUrl = <<>>
        /\ AlternateLinks(call.arg.Links) = {} =>
               call.res.paper.ArxivUrl = <<>>

\* An entry whose only link is the DOI link converted: both fields are
\* empty.
C18_Witness ==
    /\ call.fn = "ToPaper" /\ call.done
    /\ call.arg.Links = <<Link(<<"h", "t", "t", "p", ":", "/", "/", "d", "x",
            ".", "d", "o", "i", ".", "o", "r", "g", "/", "1", "0", ".", "1",
            "/", "a">>, <<"r", "e", "l", "a", "t", "e", "d">>, <<"d", "o",
            "i">>)>>
    /\ ~call.res.err
    /\ call.res.paper.PDFUrl = <<>>
    /\ call.res.paper.ArxivUrl = <<>>

\* C19: cleanText of a result of cleanText is that result, and the result
\* neither begins nor ends with white space nor has two white-space
\* characters side by side.
C19_CleanTextIdempotent ==
    (call.fn = "cleanText" /\ call.done) =>
        LET r == call.res
        IN  /\ cleanText(r) = r
            /\ r # <<>> =>
                   r[1] \notin UnicodeSpace /\ r[Len(r)] \notin UnicodeSpace
            /\ \A k \in 1..(Len(r) - 1) :
                   ~(r[k] \in UnicodeSpace /\ r[k + 1] \in UnicodeSpace)

\* s starts with sep at position k.
OccursAt(s, sep, k) ==
    /\ k + Len(sep) - 1 <= Len(s)
    /\ SubSeq(s, k, k + Len(sep) - 1) = sep

\* The pieces of s between the occurrences of sep, from the left.
RECURSIVE Split(_, _)
Split(s, sep) ==
    LET at == {k \in 1..Len(s) : OccursAt(s, sep, k)}
    IN  IF at = {} THEN <<s>>
        ELSE <<SubSeq(s, 1, SetMin(at) - 1)>>
                 \o Split(SubSeq(s, SetMin(at) + Len(sep), Len(s)), sep)

\* C20: authors is the author names (trimmed, as the parser takes them) and
\* categories the category terms, in source order, joined with ", ";
\* splitting either string on ", " gives back the list it was made of.
C20_JoinSplitsBack ==
    (call.fn = "ToPaper" /\ call.done /\ ~call.res.err) =>
        LET names == [i \in 1..Len(call.arg.Authors) |->
                         TrimSpace(call.arg.Authors[i])]
            terms == call.arg.Categories
        IN  /\ call.res.paper.Authors = Join(names, Sep)
            /\ Split(call.res.paper.Authors, Sep) = names
            /\ call.res.paper.Categories = Join(terms, Sep)
            /\ Split(call.res.paper.Categories, Sep) = terms

\* The terms of a list, each after its field prefix, joined with " OR ".
RECURSIVE OrJoined(_, _)
OrJoined(prefix, names) ==
    IF Len(names) = 1 THEN prefix \o names[1]
    ELSE prefix \o names[1] \o <<" ", "O", "R", " ">>
             \o OrJoined(prefix, Tail(names))

\* The group of a non-empty list: in parentheses when it has two terms or
\* more.
GroupOf(prefix, names) ==
    IF Len(names) > 1 THEN <<"(">> \o OrJoined(prefix, names) \o <<")">>
    ELSE OrJoined(prefix, names)

\* The expression the lists c and k stand for when one of them is not empty.
ExpressionOf(c, k) ==
    IF k = <<>> THEN GroupOf(<<"c", "a", "t", ":">>, c)
    ELSE IF c = <<>> THEN GroupOf(<<"a", "l", "l", ":">>, k)
    ELSE GroupOf(<<"c", "a", "t", ":">>, c)
             \o <<" ", "A", "N", "D", " ">>
             \o GroupOf(<<"a", "l", "l", ":">>, k)

\* C21 as stated: buildSearchQuery returns the category terms joined with
\* OR (in parentheses when there is more than one), the keyword terms
\* likewise, the non-empty groups joined with AND with the categories
\* first, and all:* exactly when both lists are empty.
C21_MatchAllOnlyWhenEmpty ==
    (call.fn = "buildSearchQuery" /\ call.done) =>
        LET c == call.arg.categories
            k == call.arg.keywords
        IN  /\ (c # <<>> \/ k # <<>>) => call.res = ExpressionOf(c, k)
            /\ (call.res = <<"a", "l", "l", ":", "*">>)
                   <=> (c = <<>> /\ k = <<>>)

\* C21, amended: the groups are built as stated, all:* is returned when
\* both lists are empty, and for other lists only when there is no category
\* and the only keyword is *.
C21_QueryOfLists ==
    (call.fn = "buildSearchQuery" /\ call.done) =>
        LET c == call.arg.categories
            k == call.arg.keywords
        IN  /\ (c # <<>> \/ k # <<>>) => call.res = ExpressionOf(c, k)
            /\ (c = <<>> /\ k = <<>>)
                   => call.res = <<"a", "l", "l", ":", "*">>
            /\ (call.res = <<"a", "l", "l", ":", "*">>)
                   => (c = <<>> /\ k \in {<<>>, <<<<"*">>>>})

\* Two categories and two keywords: both groups in parentheses, joined with
\* AND.
C21_Witness ==
    /\ call.fn = "buildSearchQuery" /\ call.done
    /\ call.arg.categories = <<CatAI, CatLG>>
    /\ call.arg.keywords = <<<<"g", "r", "a", "p", "h">>, <<"*">>>>
    /\ call.res = <<"(">> \o <<"c", "a", "t", ":">> \o CatAI \o <<" ", "O",
            "R", " ">> \o <<"c", "a", "t", ":">>
                      \o CatLG \o <<")">> \o <<" ", "A", "N", "D",
                              " ">> \o <<"(">>
                      \o <<"a", "l", "l", ":">> \o <<"g", "r", "a", "p",
                              "h">> \o <<" ", "O", "R", " ">> \o <<"a", "l",
                              "l", ":">>
                      \o <<"*">> \o <<")">>

\* The comma-separated list of the identifiers ids (not empty).
RECURSIVE CommaSeparated(_)
CommaSeparated(ids) ==
    IF Len(ids) = 1 THEN ids[1]
    ELSE ids[1] \o <<",">> \o CommaSeparated(Tail(ids))

\* C22: FetchByIDs with an empty list returns an empty feed and no error
\* and sends no request; with a non-empty list it sends one request, and
\* only one, whose id_list is the identifiers joined with commas.
C22_FetchByIDsRequests ==
    (call.fn = "FetchByIDs" /\ call.res.pc # "entry") =>
        IF call.arg = <<>>
        THEN /\ call.done
             /\ call.res.requests = <<>>
             /\ call.res.feed = <<>>
             /\ ~call.res.err
        ELSE /\ Len(call.res.requests) = 1
             /\ call.res.requests[1].id_list = CommaSeparated(call.arg)

\* The call with two identifiers returned a feed after its one request.
C22_Witness ==
    /\ call.fn = "FetchByIDs" /\ call.done
    /\ call.arg = <<IdA, IdB>>
    /\ ~call.res.err
    /\ call.res.feed # <<>>
    /\ call.res.requests = <<[id_list |-> IdA \o <<",">> \o IdB]>>

\* C28: the ticks that fire while the scheduler is busy (in the warm-up
\* delay or in a cycle) are kept as one pending tick: when the scheduler
\* comes back to its select after one tick or more, a cycle starts at once,
\* and however many ticks there were no tick is pending after that start,
\* so that one catch-up cycle follows and not one for every tick.
C28_TicksCoalesced ==
    [][/\ (spc = "select" /\ missed >= 1) =>
              (SchedCycleStarts /\ clock' = clock /\ ~tickPending'
                  /\ missed' = 0)
       /\ (spc' = "select" /\ missed' >= 1) => tickPending'
       /\ (spc' = "select" /\ missed' = 0) => ~tickPending']_vars

\* A cycle has returned that spanned two ticks: the scheduler is at its
\* select with the tick that is pending.
C28_Witness ==
    /\ spc = "select" /\ nStarted >= 1
    /\ lastOutcome # "none"
    /\ missed = 2
    /\ tickPending

\* C23: a stored paper is in the library exactly when the last of the save
\* and remove statements executed for its id was a save, whatever upserts
\* there were; and a library row that appears was made by a save of that id
\* and is not read.
C23_LibraryFollowsSaveAndRemove ==
    [][/\ \A id \in DOMAIN db'.papers :
              (id \in DOMAIN db'.library)
                  <=> (id \in DOMAIN lastCuration'
                          /\ lastCuration'[id] = "save")
       /\ \A id \in DOMAIN db'.library \ DOMAIN db.library :
              /\ lastOp'.op = "save" /\ lastOp'.arg = id
              /\ ~db'.library[id].IsRead]_vars

\* A paper was saved and stored again after that, another was saved and
\* removed and stored again after that.
C23_Witness ==
    /\ lastOp.op = "upsert"
    /\ {IdA, IdB} \subseteq DOMAIN db.papers
    /\ written[IdA] = SrcA2
    /\ {IdA, IdB} \subseteq DOMAIN lastCuration
    /\ IdA \in DOMAIN db.library /\ lastCuration[IdA] = "save"
    /\ IdB \notin DOMAIN db.library /\ lastCuration[IdB] = "remove"

\* C24: a ToggleRead statement for a paper in the library negates the
\* isRead flag of its row and leaves every other row and column as it was
\* (for a paper not in the library it changes nothing); so a row that is not
\* read, as a new row is, is read after one toggle and not read after two.
C24_ToggleFlipsIsRead ==
    [][(/\ lastOp'.op = "toggle"
        /\ clock' = clock /\ client' = client /\ resp' = resp) =>
           LET id == lastOp'.arg
           IN  IF id \in DOMAIN db.library
               THEN /\ db'.library[id].IsRead = ~db.library[id].IsRead
                    /\ db' = [db EXCEPT !.library[id].IsRead =
                                            db'.library[id].IsRead]
               ELSE db' = db]_vars

\* Two toggles in a row of a saved paper: its row is not read again.
C24_Witness ==
    /\ lastOp.op = "toggle" /\ lastOp.again
    /\ lastOp.arg = IdA
    /\ IdA \in DOMAIN db.library
    /\ ~db.library[IdA].IsRead
    /\ IdB \in DOMAIN db.library /\ db.library[IdB].IsRead

\* C26: the response to an add-to-library request for a stored paper that
\* was served has status 200 and the HX-Trigger header libraryUpdated, and
\* the paper is in the library.
C26_TriggerIsLibraryUpdated ==
    [][(resp' # resp /\ resp'.code # 500 /\ resp'.id \in DOMAIN db'.papers)
          => /\ resp'.code = 200
             /\ resp'.id \in DOMAIN db'.library
             /\ resp'.HXTrigger =
                    <<"l", "i", "b", "r", "a", "r", "y", "U", "p", "d", "a",
                            "t", "e", "d">>]_vars

\* C27: every library row is the row of a paper that has a row in papers;
\* a save for an id with no paper row makes no library row.
C27_LibraryRowsHavePapers ==
    \A id \in DOMAIN db.library : id \in DOMAIN db.papers

\* C30: a save of a paper that is in the library leaves its row (isRead,
\* savedAt) and the rest of the database as they were.
C30_SaveKeepsEntry ==
    [][(lastOp'.op = "save" /\ lastOp'.arg \in DOMAIN db.library)
          => db' = db]_vars

\* A paper that was saved earlier and marked read was saved again, by a
\* request that was served: it is still read, with its first savedAt.
C30_Witness ==
    /\ lastOp.op = "save" /\ lastOp.arg = IdA
    /\ resp = [id |-> IdA, code |-> 200, HXTrigger |-> LibraryTrigger]
    /\ IdA \in DOMAIN db.library
    /\ db.library[IdA].IsRead
    /\ db.library[IdA].SavedAt < clock

\* C25: whatever the interleaving of the CreateTag calls, every call that
\* returned has no error and the id of the one tag that has its name, so
\* calls with the same name return the same id.
C25_CreateTagAtomic ==
    /\ \A name \in CreatedNames : Cardinality(TagsNamed(db, name)) <= 1
    /\ \A c \in 1..MaxCallers :
           tagCalls[c].pc = "done" =>
               /\ ~tagCalls[c].err
               /\ TagsNamed(db, tagCalls[c].name)
                      = {[ID |-> tagCalls[c].id, Name |-> tagCalls[c].name]}

\* C29: no step of the pipeline or of the curation operations deletes a
\* paper row: the papers stored before the step are stored after it, each
\* under its canonical id.
C29_PapersOnlyGrow ==
    [][\A id \in DOMAIN db.papers : id \in DOMAIN db'.papers]_vars

\* Both papers are stored, a paper was removed from the library, and a
\* refresh cycle in which an upsert failed is in progress.
C29_Witness ==
    /\ DOMAIN db.papers = {IdA, IdB}
    /\ lastOp.op = "remove"
    /\ lastOp.arg \in DOMAIN lastCuration
    /\ mc.pc = "upsert" /\ mc.failed # {}
    /\ db.tags # {}

====
